---- MODULE Spec2Model ----
(***************************************************************************)
(* A model of the form-validation engine of form-validator (class          *)
(* Validator): the rule registry, the rule-string parser, the per-field    *)
(* evaluator with its cross-field sync call, the error store and the       *)
(* submit / reset protocol.                                                *)
(*                                                                         *)
(* JavaScript strings are TLA+ strings; a character is a string of length  *)
(* one.  The strings of the model are written over the characters          *)
(* a-z A-Z 0-9 space @ . _ - | : , and the numeric strings among them are  *)
(* unsigned decimal literals (no exponent, no radix prefix).               *)
(***************************************************************************)
EXTENDS Integers, Sequences, FiniteSets, TLC

(***************************************************************************)
(* String primitives (methods of String.prototype)                         *)
(***************************************************************************)
CharAt(s, i) == SubSeq(s, i, i)

Lower == {"a","b","c","d","e","f","g","h","i","j","k","l","m",
          "n","o","p","q","r","s","t","u","v","w","x","y","z"}
Upper == {"A","B","C","D","E","F","G","H","I","J","K","L","M",
          "N","O","P","Q","R","S","T","U","V","W","X","Y","Z"}
Digit == {"0","1","2","3","4","5","6","7","8","9"}

\* the white space of the model's alphabet
IsSpace(c) == c = " "

RECURSIVE TrimStart(_)
TrimStart(s) ==
  IF Len(s) > 0 /\ IsSpace(CharAt(s, 1)) THEN TrimStart(SubSeq(s, 2, Len(s))) ELSE s

RECURSIVE TrimEnd(_)
TrimEnd(s) ==
  IF Len(s) > 0 /\ IsSpace(CharAt(s, Len(s))) THEN TrimEnd(SubSeq(s, 1, Len(s) - 1)) ELSE s

\* String.prototype.trim
Trim(s) == TrimEnd(TrimStart(s))

\* String.prototype.indexOf for a one-character or longer pattern, 1-based; 0 when absent
IndexOf(s, pat) ==
  LET hits == {i \in 1..(Len(s) - Len(pat) + 1) : SubSeq(s, i, i + Len(pat) - 1) = pat}
  IN IF hits = {} THEN 0 ELSE CHOOSE i \in hits : \A j \in hits : i <= j

\* String.prototype.split with a one-character separator; i is the place of the
\* first separator in s, 0 when it has none
RECURSIVE SplitAt(_, _, _)
SplitAt(s, sep, i) ==
  IF i = 0 THEN <<s>>
  ELSE <<SubSeq(s, 1, i - 1)>>
         \o SplitAt(SubSeq(s, i + 1, Len(s)), sep, IndexOf(SubSeq(s, i + 1, Len(s)), sep))

Split(s, sep) == SplitAt(s, sep, IndexOf(s, sep))

\* String.prototype.replace(pattern string, replacement): the first occurrence only,
\* found at i (the replacements of the model hold no "$")
ReplaceAt(s, pat, rep, i) ==
  IF i = 0 THEN s
  ELSE SubSeq(s, 1, i - 1) \o rep \o SubSeq(s, i + Len(pat), Len(s))

ReplaceFirst(s, pat, rep) == ReplaceAt(s, pat, rep, IndexOf(s, pat))

AllIn(s, class) == \A i \in 1..Len(s) : CharAt(s, i) \in class

(***************************************************************************)
(* Number(string): [nan, m, e] stands for NaN or for the number m / 10^e   *)
(***************************************************************************)
DigitVal(c) == CHOOSE n \in 0..9 : CharAt("0123456789", n + 1) = c

RECURSIVE DigitsVal(_)
DigitsVal(s) ==
  IF Len(s) = 0 THEN 0
  ELSE 10 * DigitsVal(SubSeq(s, 1, Len(s) - 1)) + DigitVal(CharAt(s, Len(s)))

NaN == [nan |-> TRUE, m |-> 0, e |-> 0]
Num(n) == [nan |-> FALSE, m |-> n, e |-> 0]

\* a decimal literal with integer digits ip and fraction digits fp
Decimal(ip, fp) ==
  IF AllIn(ip, Digit) /\ AllIn(fp, Digit) /\ Len(ip) + Len(fp) > 0
  THEN [nan |-> FALSE, m |-> DigitsVal(ip \o fp), e |-> Len(fp)]
  ELSE NaN

\* the number a trimmed string s stands for; dot is the place of its first "."
NumberAt(s, dot) ==
  IF Len(s) = 0 THEN Num(0)
  ELSE IF dot = 0 THEN Decimal(s, "")
  ELSE Decimal(SubSeq(s, 1, dot - 1), SubSeq(s, dot + 1, Len(s)))

NumberOfTrimmed(s) == NumberAt(s, IndexOf(s, "."))

\* Number(str)
ToNumber(str) == NumberOfTrimmed(Trim(str))

RECURSIVE Pow10(_)
Pow10(n) == IF n = 0 THEN 1 ELSE 10 * Pow10(n - 1)

\* a >= b on numbers: false when either is NaN
NumGe(a, b) == ~a.nan /\ ~b.nan /\ a.m * Pow10(b.e) >= b.m * Pow10(a.e)
NumLe(a, b) == NumGe(b, a)

(***************************************************************************)
(* The built-in validators (static validators)                             *)
(***************************************************************************)
v_required(value) == Len(Trim(value)) > 0

v_minLen(value, argument) == NumGe(Num(Len(Trim(value))), ToNumber(argument))

v_maxLen(value, argument) == NumLe(Num(Len(Trim(value))), ToNumber(argument))

v_number(value) == ~ToNumber(value).nan

v_min(value, min) == NumGe(ToNumber(value), ToNumber(min))

v_max(value, max) == NumLe(ToNumber(value), ToNumber(max))

\* const len = value.trim().length; return len >= Number(min) && len <= Number(max)
LenInRange(len, min, max) == NumGe(len, min) /\ NumLe(len, max)

v_range(value, min, max) == LenInRange(Num(Len(Trim(value))), ToNumber(min), ToNumber(max))

\* /^[a-zA-Z0-9._-]+@[a-zA-Z0-9.-]+\.[a-zA-Z]{2,4}$/ on s: some "@" and some later
\* "." cut s into the three parts of the pattern
EmailPattern(s) ==
  \E at \in 2..Len(s) : \E dot \in (at + 2)..Len(s) :
    /\ CharAt(s, at) = "@"
    /\ AllIn(SubSeq(s, 1, at - 1), Lower \cup Upper \cup Digit \cup {".", "_", "-"})
    /\ AllIn(SubSeq(s, at + 1, dot - 1), Lower \cup Upper \cup Digit \cup {".", "-"})
    /\ CharAt(s, dot) = "."
    /\ (Len(s) - dot) \in 2..4
    /\ AllIn(SubSeq(s, dot + 1, Len(s)), Lower \cup Upper)

v_email(value) == EmailPattern(Trim(value))

\* value === this[field]: an absent entry is undefined, which equals no string
v_confirm(this, value, field) == field \in DOMAIN this /\ value = this[field]

\* Function.prototype.length of each built-in validator
FunctionLength(fn) ==
  CASE fn \in {"required", "number", "email"} -> 1
    [] fn \in {"minLen", "maxLen", "min", "max", "confirm"} -> 2
    [] fn = "range" -> 3

\* validator.call(this._valueFields, value, ...parameters)
Call(fn, this, value, parameters) ==
  CASE fn = "required" -> v_required(value)
    [] fn = "minLen" -> v_minLen(value, parameters[1])
    [] fn = "maxLen" -> v_maxLen(value, parameters[1])
    [] fn = "number" -> v_number(value)
    [] fn = "min" -> v_min(value, parameters[1])
    [] fn = "max" -> v_max(value, parameters[1])
    [] fn = "range" -> v_range(value, parameters[1], parameters[2])
    [] fn = "email" -> v_email(value)
    [] fn = "confirm" -> v_confirm(this, value, parameters[1])

\* Validator.validators as the class is loaded: name -> {message, validator}.
\* The message texts are rendered in ASCII; their $1, $2 placeholders are the source's.
BuiltinValidators ==
  [ required |-> [message |-> "Field is required", validator |-> "required"],
    minLen   |-> [message |-> "Min $1 chars", validator |-> "minLen"],
    maxLen   |-> [message |-> "Max $1 chars", validator |-> "maxLen"],
    number   |-> [message |-> "Must be a number", validator |-> "number"],
    min      |-> [message |-> "Min $1", validator |-> "min"],
    max      |-> [message |-> "Max $1", validator |-> "max"],
    range    |-> [message |-> "Length from $1 to $2", validator |-> "range"],
    email    |-> [message |-> "Bad e-mail", validator |-> "email"],
    confirm  |-> [message |-> "Passwords must match", validator |-> "confirm"] ]

(***************************************************************************)
(* JavaScript values that may be undefined                                 *)
(***************************************************************************)
Undefined == [def |-> FALSE, s |-> ""]
Str(s) == [def |-> TRUE, s |-> s]

\* plain objects as functions: obj[k] = v, delete obj[k]
EmptyObject == [k \in {} |-> k]
Put(obj, k, v) == [j \in DOMAIN obj \cup {k} |-> IF j = k THEN v ELSE obj[j]]
Delete(obj, k) == [j \in DOMAIN obj \ {k} |-> obj[j]]

(***************************************************************************)
(* The rule-string parser                                                  *)
(***************************************************************************)
\* _validatorArgumentsParser: a string is split on ",", undefined gives []
_validatorArgumentsParser(args) ==
  IF args.def THEN Split(args.s, ",") ELSE <<>>

\* getNumberOfValidatorArguments: validator.length - 1
getNumberOfValidatorArguments(reg, name) == FunctionLength(reg[name].validator) - 1

\* the checks of the map of _validatorsParser on one element, once name and
\* parameters are taken from it
CheckSegment(reg, name, parameters) ==
  IF name \notin DOMAIN reg
  THEN [ok |-> FALSE, error |-> "not found", name |-> name, parameters |-> parameters]
  ELSE IF getNumberOfValidatorArguments(reg, name) # Len(parameters)
       THEN [ok |-> FALSE, error |-> "arguments", name |-> name, parameters |-> parameters]
       ELSE [ok |-> TRUE, error |-> "", name |-> name, parameters |-> parameters]

\* const [name, rawParams] = elem.split(":") keeps the first two pieces of the
\* split and drops the others; with one piece rawParams is undefined
Destructure(reg, pieces) ==
  CheckSegment(reg, pieces[1],
               _validatorArgumentsParser(IF Len(pieces) >= 2 THEN Str(pieces[2])
                                         ELSE Undefined))

ParseSegment(reg, elem) == Destructure(reg, Split(elem, ":"))

\* the map of _validatorsParser over the segments: the first failing one throws
MapSegments(parsed) ==
  IF \A i \in 1..Len(parsed) : parsed[i].ok
  THEN [ok |-> TRUE, error |-> "", name |-> "",
        validators |-> [i \in 1..Len(parsed) |->
                          [name |-> parsed[i].name, parameters |-> parsed[i].parameters]]]
  ELSE [ok |-> FALSE,
        error |-> parsed[CHOOSE j \in 1..Len(parsed) :
                    ~parsed[j].ok /\ \A k \in 1..(j - 1) : parsed[k].ok].error,
        name |-> parsed[CHOOSE j \in 1..Len(parsed) :
                   ~parsed[j].ok /\ \A k \in 1..(j - 1) : parsed[k].ok].name,
        validators |-> <<>>]

\* a parser that skips the empty segments
NonEmptySegment(elem) == elem # ""
ParseElems_SkipsEmpty(reg, elems) ==
  MapSegments([i \in 1..Len(SelectSeq(elems, NonEmptySegment)) |->
                 ParseSegment(reg, SelectSeq(elems, NonEmptySegment)[i])])

ParseElems(reg, elems) == MapSegments([i \in 1..Len(elems) |-> ParseSegment(reg, elems[i])])

\* _validatorsParser: validators.trim().split("|").map(...)
_validatorsParser(reg, validators) == ParseElems(reg, Split(Trim(validators), "|"))

\* a field declaration {name, valid, syncCall?}; "" stands for no syncCall
\* (field.syncCall is tested for truthiness, so "" and undefined act alike)
Field(name, valid, syncCall) == [name |-> name, valid |-> valid, syncCall |-> syncCall]

\* the body of the map of _fieldsParser for one field, given its parsed validators
ParseField(inputs, allFieldNames, field, p) ==
  IF field.name \notin inputs
  THEN [ok |-> FALSE, error |-> "field not found", field |-> <<>>]
  ELSE IF field.syncCall # "" /\ field.syncCall \notin allFieldNames
       THEN [ok |-> FALSE, error |-> "sync not found", field |-> <<>>]
       ELSE IF ~p.ok
            THEN [ok |-> FALSE, error |-> p.error, field |-> <<>>]
            ELSE [ok |-> TRUE, error |-> "",
                  field |-> [name |-> field.name, validators |-> p.validators,
                             syncCall |-> field.syncCall]]

\* the map of _fieldsParser: the first failing field throws
MapFields(parsed) ==
  IF \A i \in 1..Len(parsed) : parsed[i].ok
  THEN [ok |-> TRUE, error |-> "", fields |-> [i \in 1..Len(parsed) |-> parsed[i].field]]
  ELSE [ok |-> FALSE,
        error |-> parsed[CHOOSE j \in 1..Len(parsed) :
                    ~parsed[j].ok /\ \A k \in 1..(j - 1) : parsed[k].ok].error,
        fields |-> <<>>]

\* _fieldsParser: inputs are the names this._form answers to
_fieldsParser(reg, inputs, fields) ==
  MapFields([i \in 1..Len(fields) |->
               ParseField(inputs, {fields[k].name : k \in 1..Len(fields)}, fields[i],
                          _validatorsParser(reg, fields[i].valid))])

(***************************************************************************)
(* The instance and its surroundings                                       *)
(***************************************************************************)
VARIABLES
  validators,             \* Validator.validators, the static rule registry
  options,                \* what create was called with: mode, fields; and the
                          \* form it found: its inputs, the values a user types
  _fields,                \* the parsed field descriptors
  _mode,
  form,                   \* this._form[name].value, the live value of each input
  _errors,                \* field name -> (rule name -> message)
  _valueFields,           \* field name -> last recorded value
  _errorMessageElements,  \* field name -> [visible, textContent] of its error div
  disabled,               \* this._submitButton.disabled
  _onErrorCallback,       \* "" while none is registered
  _onSubmitCallback,
  event,                  \* the DOM event or reset handled last: [type, field, value]
  evals,                  \* the evaluations (_eventHandler calls) it made, in order
  submitCalls,            \* the submit callback calls it made: the value mappings passed
  defaultPrevented,       \* event.preventDefault() was called by the submit listener
  threw,                  \* that operation ended by an exception
  registryThrew,          \* the last call of a static registry method threw
  observed,               \* field name -> raw value last read from an event or an input
  ruleString,             \* the rule string handed to the parser on its own
  parseResult,            \* what _validatorsParser made of it
  instances,              \* Validator.instances: [selector, instances] in push order
  callConstructorOfFactory, \* Validator.callConstructorOfFactory
  returned,               \* how the last call of create or of the constructor ended
  errorPayload,           \* the errors object the error callback was last given
  submitPayload           \* the value object the submit callback was last given

instanceVars == <<options, _fields, _mode, form, _errors, _valueFields,
                  _errorMessageElements, disabled, _onErrorCallback, _onSubmitCallback,
                  event, evals, submitCalls, defaultPrevented, threw, observed>>

parserVars == <<ruleString, parseResult>>

factoryVars == <<instances, callConstructorOfFactory, returned>>

\* the objects a host holds on to after its callbacks were called
payloadVars == <<errorPayload, submitPayload>>

vars == <<validators, registryThrew, instanceVars, parserVars, factoryVars, payloadVars>>

\* the value _syncCall gives a field that has no recorded value
SyncPlaceholder == "d1111"

visibleClass == "input-error--visible"

(***************************************************************************)
(* The evaluator.  A handler runs on a record s = [errors, valueFields,     *)
(* elements, evals, threw] and an action commits the record it ends with.  *)
(***************************************************************************)
Running ==
  [errors |-> _errors, valueFields |-> _valueFields, elements |-> _errorMessageElements,
   evals |-> <<>>, threw |-> FALSE]

\* get isError
isErrorOf(errors) == Cardinality(DOMAIN errors) # 0
isError == isErrorOf(_errors)

\* _getErrorMessage: params.forEach((val, index) => message.replace(`$${index + 1}`, val))
RECURSIVE ReplaceParams(_, _, _)
ReplaceParams(message, params, index) ==
  IF index >= Len(params) THEN message
  ELSE ReplaceParams(
         ReplaceFirst(message, "$" \o CharAt("123456789", index + 1), params[index + 1]),
         params, index + 1)

_getErrorMessage(message, params) == ReplaceParams(message, params, 0)

\* try { delete this._errors[field.name][val.name] } catch (e) {}: with no object
\* under field.name the delete throws a TypeError, which the catch drops
DeleteError(errors, fieldName, valName) ==
  IF fieldName \in DOMAIN errors
  THEN Put(errors, fieldName, Delete(errors[fieldName], valName))
  ELSE errors

\* if (!this._errors[field.name]) this._errors[field.name] = {}; then the assignment
SetError(errors, fieldName, valName, errorMessage) ==
  Put(errors, fieldName,
      Put(IF fieldName \in DOMAIN errors THEN errors[fieldName] ELSE EmptyObject,
          valName, errorMessage))

\* RuleOutcome with the empty-value exemption granted to required fields too
RuleOutcome_EmptyAlwaysPasses(errors, value, field, val, isValid) ==
  IF isValid \/ Len(Trim(value)) = 0
  THEN DeleteError(errors, field.name, val.name)
  ELSE SetError(errors, field.name, val.name,
                _getErrorMessage(validators[val.name].message, val.parameters))

\* the if of the for loop of _eventHandler for the rule val, whose validator
\* returned isValid
RuleOutcome(errors, value, field, val, isValid) ==
  IF isValid \/ (Len(Trim(value)) = 0
                 /\ ~\E k \in 1..Len(field.validators) : field.validators[k].name = "required")
  THEN DeleteError(errors, field.name, val.name)
  ELSE SetError(errors, field.name, val.name,
                _getErrorMessage(validators[val.name].message, val.parameters))

\* the body of the for loop of _eventHandler for the rule val
RuleStep(errors, this, value, field, val) ==
  RuleOutcome(errors, value, field, val,
              Call(validators[val.name].validator, this, value, val.parameters))

RECURSIVE RulesLoop(_, _, _, _, _)
RulesLoop(errors, this, value, field, i) ==
  IF i > Len(field.validators) THEN errors
  ELSE RulesLoop(RuleStep(errors, this, value, field, field.validators[i]),
                 this, value, field, i + 1)

\* _removeEmptyErrorFields removing nothing
_removeEmptyErrorFields_Keeps(errors) == errors

\* _removeEmptyErrorFields
_removeEmptyErrorFields(errors) ==
  [f \in {g \in DOMAIN errors : Cardinality(DOMAIN errors[g]) # 0} |-> errors[f]]

\* the for loop of _toggleErrorMessages over elem.order, from index i, on one element
RECURSIVE ToggleOrder(_, _, _, _, _)
ToggleOrder(errors, name, order, i, errorElement) ==
  IF i > Len(order) THEN errorElement
  ELSE IF name \in DOMAIN errors /\ order[i] \in DOMAIN errors[name]
          /\ errors[name][order[i]] # ""
       THEN [visible |-> TRUE, textContent |-> errors[name][order[i]]]
       ELSE ToggleOrder(errors, name, order, i + 1, [errorElement EXCEPT !.visible = FALSE])

\* obj.validators.map(({ name }) => name)
OrderOf(field) == [i \in 1..Len(field.validators) |-> field.validators[i].name]

\* orderedList.forEach of _toggleErrorMessages, from field k
RECURSIVE ToggleFrom(_, _, _)
ToggleFrom(elements, errors, k) ==
  IF k > Len(_fields) THEN elements
  ELSE ToggleFrom([elements EXCEPT ![_fields[k].name] =
                     ToggleOrder(errors, _fields[k].name, OrderOf(_fields[k]), 1, @)],
                  errors, k + 1)

_toggleErrorMessages(elements, errors) == ToggleFrom(elements, errors, 1)

\* the end of _eventHandler: the error callback is called when the field has errors
\* and a callback is registered
Notify(s, value, field, errors, elements) ==
  [s EXCEPT
     !.errors = errors,
     !.valueFields = Put(s.valueFields, field.name, value),
     !.elements = elements,
     !.evals = Append(@, [field |-> field, value |-> value, this |-> s.valueFields,
                          errors |-> errors, elements |-> elements,
                          callback |-> IF field.name \in DOMAIN errors
                                       THEN _onErrorCallback ELSE ""])]

\* _eventHandler after its for loop left errors: the value is recorded, the empty
\* error fields removed, the messages toggled
AfterRules(s, value, field, errors) ==
  Notify(s, value, field, errors, _toggleErrorMessages(s.elements, errors))

\* _eventHandler(value, field); value.trim() throws a TypeError on undefined
_eventHandler(s, value, field) ==
  IF s.threw THEN s
  ELSE IF ~value.def THEN [s EXCEPT !.threw = TRUE]
  ELSE AfterRules(s, value.s, field,
                  _removeEmptyErrorFields(
                    RulesLoop(s.errors, s.valueFields, value.s, field, 1)))

\* this._fields.find(({ name }) => name === vname): its index, 0 when there is none
FindField(vname) ==
  IF \E k \in 1..Len(_fields) : _fields[k].name = vname
  THEN CHOOSE k \in 1..Len(_fields) :
         _fields[k].name = vname /\ \A j \in 1..(k - 1) : _fields[j].name # vname
  ELSE 0

\* SyncValue without the ?? fallback
SyncValue_NoFallback(valueFields, vname) ==
  IF vname \in DOMAIN valueFields THEN Str(valueFields[vname]) ELSE Undefined

\* this._valueFields[vname] ?? "d1111"
SyncValue(valueFields, vname) ==
  IF vname \in DOMAIN valueFields THEN Str(valueFields[vname]) ELSE Str(SyncPlaceholder)

\* _syncCall(vname)
_syncCall(s, vname) ==
  IF FindField(vname) = 0 THEN s
  ELSE _eventHandler(s, SyncValue(s.valueFields, vname), _fields[FindField(vname)])

\* SyncAfter making no sync call
SyncAfter_Never(handled, field) == handled

\* SyncAfter making the sync call of the dependent field too
SyncAfter_Follows(handled, field) ==
  IF field.syncCall # "" /\ ~handled.threw
  THEN IF _fields[FindField(field.syncCall)].syncCall # ""
       THEN _syncCall(_syncCall(handled, field.syncCall),
                      _fields[FindField(field.syncCall)].syncCall)
       ELSE _syncCall(handled, field.syncCall)
  ELSE handled

\* the if (field.syncCall) of the listener, after its _eventHandler call
SyncAfter(handled, field) ==
  IF field.syncCall # "" /\ ~handled.threw THEN _syncCall(handled, field.syncCall)
  ELSE handled

\* the listener _setEvents adds for one field
Listener(s, value, field) == SyncAfter(_eventHandler(s, value, field), field)

\* the event names _setEvents subscribes the inputs to
_events(mode) ==
  CASE mode = "submit" -> {}
    [] mode = "all" -> {"blur", "input"}
    [] OTHER -> {mode}

\* dispatch of a value-change event on input name: the listeners of the fields
\* declared with that name run in the order they were added, from field k
RECURSIVE Dispatch(_, _, _, _)
Dispatch(s, name, value, k) ==
  IF k > Len(_fields) THEN s
  ELSE Dispatch(IF _fields[k].name = name THEN Listener(s, value, _fields[k]) ELSE s,
                name, value, k + 1)

\* SubmitPass evaluating only the fields that have a recorded value
RECURSIVE SubmitPass_RecordedOnly(_, _)
SubmitPass_RecordedOnly(s, k) ==
  IF k > Len(_fields) THEN s
  ELSE SubmitPass_RecordedOnly(
         IF _fields[k].name \in DOMAIN s.valueFields
         THEN _eventHandler(s, Str(form[_fields[k].name]), _fields[k]) ELSE s,
         k + 1)

\* this._fields.forEach of the submit listener, from field k
RECURSIVE SubmitPass(_, _)
SubmitPass(s, k) ==
  IF k > Len(_fields) THEN s
  ELSE SubmitPass(_eventHandler(s, Str(form[_fields[k].name]), _fields[k]), k + 1)

(***************************************************************************)
(* What the callbacks are given.  The error callback gets the field's own  *)
(* object of this._errors, the submit callback gets this._valueFields: a   *)
(* host that keeps them reads what the instance writes to them later.      *)
(***************************************************************************)
\* no callback was called yet
NoErrorPayload ==
  [taken |-> FALSE, field |-> "", atCall |-> EmptyObject, content |-> EmptyObject,
   attached |-> FALSE]
NoSubmitPayload == [taken |-> FALSE, atCall |-> EmptyObject]

\* the place in evs of the last evaluation that called the error callback, 0 when
\* none did
LastCalled(evs) ==
  IF \E n \in 1..Len(evs) : evs[n].callback # ""
  THEN CHOOSE n \in 1..Len(evs) :
         evs[n].callback # "" /\ \A m \in (n + 1)..Len(evs) : evs[m].callback = ""
  ELSE 0

\* errors: this._errors[field.name] as evaluation n of evs passed it
Given(evs, n) ==
  [taken |-> TRUE, field |-> evs[n].field.name,
   atCall |-> evs[n].errors[evs[n].field.name],
   content |-> evs[n].errors[evs[n].field.name], attached |-> TRUE]

\* the evaluations of evs after place n that are of the field name
Touching(evs, n, name) == {m \in (n + 1)..Len(evs) : evs[m].field.name = name}

\* the object after the evaluations ms of its field: they write to it while it is
\* the field's object of this._errors, and it leaves this._errors once it is empty
Mutated(payload, evs, ms) ==
  IF ~payload.taken \/ ~payload.attached \/ ms = {} THEN payload
  ELSE IF \A m \in ms : payload.field \in DOMAIN evs[m].errors
  THEN [payload EXCEPT
          !.content = evs[CHOOSE m \in ms : \A k \in ms : k <= m].errors[payload.field]]
  ELSE [payload EXCEPT !.content = EmptyObject, !.attached = FALSE]

MutatedAfter(payload, evs, n) == Mutated(payload, evs, Touching(evs, n, payload.field))

\* the object the host holds after an event whose evaluations were evs
HeldErrors(payload, evs, n) ==
  IF n = 0 THEN MutatedAfter(payload, evs, 0) ELSE MutatedAfter(Given(evs, n), evs, n)

\* this._errors = {} of resetAllErrors leaves the object as it is, out of the store
Dropped(payload) == [payload EXCEPT !.attached = FALSE]

\* this._onSubmitCallback(event, this._valueFields)
HeldValues(payload, calls) ==
  IF calls = <<>> THEN payload ELSE [taken |-> TRUE, atCall |-> calls[1].props]

(***************************************************************************)
(* The forms the model constructs a validator for                          *)
(***************************************************************************)
Form(mode, fields, values, buttonDisabled) ==
  [mode |-> mode, fields |-> fields, values |-> values,
   inputs |-> {fields[i].name : i \in 1..Len(fields)},
   buttonDisabled |-> buttonDisabled]

\* the password / confirm pair of the example page
PasswordForm ==
  Form("input",
       <<Field("password", "required|minLen:5", "confirm"),
         Field("confirm", "required|confirm:password", "")>>,
       {"", "abcde", "abcdef", SyncPlaceholder}, FALSE)

\* the age field of the example page, validated on submit only
AgeForm ==
  Form("submit",
       <<Field("age", "required|number|min:10|max:32", "")>>,
       {"", "ab", "5", "15"}, TRUE)

\* an optional and a mandatory e-mail address, validated on input and on blur
EmailForm ==
  Form("all",
       <<Field("email", "email", ""),
         Field("contact", "required|email", "")>>,
       {"", " ", "ab", "a@b.co"}, FALSE)

\* a rule name used twice in one pipeline, and two rules that can fail together
RepeatedRuleForm ==
  Form("input",
       <<Field("pin", "minLen:4|minLen:2", ""),
         Field("code", "range:2,3|minLen:4", "")>>,
       {"a", "abc", "abcd"}, TRUE)

\* one input declared twice, validated on blur
RepeatedFieldForm ==
  Form("blur",
       <<Field("nick", "required", ""),
         Field("nick", "minLen:4", "")>>,
       {"", "abc", "abcd"}, FALSE)

Forms == {PasswordForm, AgeForm, EmailForm, RepeatedRuleForm, RepeatedFieldForm}

\* the callbacks a host registers
Callbacks == {"handler"}

\* the (name, message) pairs the host passes to setMessage
Messages == {<<"required", "">>, <<"unknown", "text">>}

(***************************************************************************)
(* Construction: the state create leaves behind                            *)
(***************************************************************************)
\* this._fields = this._fieldsParser(options.fields): a throw ends the constructor
Constructed(parsed) == parsed.ok /\ _fields = parsed.fields

\* no call of the parser on its own yet
NotParsed == [ok |-> FALSE, error |-> "not called", name |-> "", validators |-> <<>>]

\* the instance create(selector, options) returns for the form it finds
Created(o) ==
  /\ options = o
  /\ Constructed(_fieldsParser(validators, options.inputs, options.fields))
  /\ _mode = options.mode
  /\ form = [n \in options.inputs |-> ""]
  /\ _errors = EmptyObject
  /\ _valueFields = EmptyObject
  /\ _errorMessageElements = [n \in {options.fields[i].name : i \in 1..Len(options.fields)}
                                |-> [visible |-> FALSE, textContent |-> ""]]
  /\ disabled = options.buttonDisabled
  /\ _onErrorCallback = ""
  /\ _onSubmitCallback = ""
  /\ event = [type |-> "create", field |-> "", value |-> ""]
  /\ evals = <<>>
  /\ submitCalls = <<>>
  /\ defaultPrevented = FALSE
  /\ threw = FALSE
  /\ observed = EmptyObject

\* the static side of the class after create(".my-form", options) returned
Selector == ".my-form"
Returned(outcome, message) == [outcome |-> outcome, message |-> message]
FactoryCreated ==
  /\ instances = <<[selector |-> Selector, instances |-> options]>>
  /\ callConstructorOfFactory = FALSE
  /\ returned = Returned("instance", "")

NoPayload == errorPayload = NoErrorPayload /\ submitPayload = NoSubmitPayload

Init ==
  /\ validators = BuiltinValidators
  /\ registryThrew = FALSE
  /\ \E o \in Forms : Created(o)
  /\ ruleString = ""
  /\ parseResult = NotParsed
  /\ FactoryCreated
  /\ NoPayload

(***************************************************************************)
(* Operations                                                              *)
(***************************************************************************)
\* what a handler that ended with record r leaves in the instance
Commit(r) ==
  /\ _errors' = r.errors
  /\ _valueFields' = r.valueFields
  /\ _errorMessageElements' = r.elements
  /\ evals' = r.evals
  /\ threw' = r.threw

\* a value-change event on input name, carrying target.value, whose listeners ended
\* with record r
Handled(r, eventName, name, value) ==
  /\ event' = [type |-> eventName, field |-> name, value |-> value]
  /\ Commit(r)
  /\ observed' = IF Len(r.evals) > 0 THEN Put(observed, name, value) ELSE observed
  /\ submitCalls' = <<>>
  /\ defaultPrevented' = FALSE
  /\ UNCHANGED <<validators, options, _fields, _mode, disabled,
                 _onErrorCallback, _onSubmitCallback, registryThrew, parserVars, factoryVars>>

\* a value-change event of type eventName on input name: with no listener for it
\* the instance does not see the event
ValueChange(eventName, name, value) ==
  IF eventName \in _events(_mode)
  THEN Handled(Dispatch(Running, name, Str(value), 1), eventName, name, value)
  ELSE UNCHANGED <<validators, options, _fields, _mode, _errors, _valueFields,
                   _errorMessageElements, disabled, _onErrorCallback, _onSubmitCallback,
                   event, evals, submitCalls, defaultPrevented, threw, registryThrew,
                   observed, parserVars, factoryVars>>

\* the user types value into input name: the input fires "input"
Input(name, value) ==
  /\ form' = [form EXCEPT ![name] = value]
  /\ ValueChange("input", name, value)

\* the user leaves input name: the input fires "blur"
Blur(name) ==
  /\ "blur" \in _events(_mode)
  /\ form' = form
  /\ ValueChange("blur", name, form[name])

\* the end of the submit listener, its forEach having ended with record r
SubmitOutcome(r) ==
  /\ event' = [type |-> "submit", field |-> "", value |-> ""]
  /\ Commit(r)
  /\ defaultPrevented' = (~r.threw /\ isErrorOf(r.errors))
  /\ submitCalls' = IF ~r.threw /\ isErrorOf(r.errors) = FALSE /\ _onSubmitCallback # ""
                    THEN <<[callback |-> _onSubmitCallback, props |-> r.valueFields]>>
                    ELSE <<>>
  /\ observed' = [n \in DOMAIN observed \cup {_fields[k].name : k \in 1..Len(_fields)} |->
                    IF \E k \in 1..Len(_fields) : _fields[k].name = n
                    THEN form[n] ELSE observed[n]]
  /\ UNCHANGED <<validators, options, _fields, _mode, form, disabled,
                 _onErrorCallback, _onSubmitCallback, registryThrew, parserVars, factoryVars>>

\* the submit listener of _handleSubmit
_handleSubmit == SubmitOutcome(SubmitPass(Running, 1))

\* resetAllErrors clearing the recorded values too
resetAllErrors_ClearsValues ==
  /\ _errorMessageElements' =
       [n \in DOMAIN _errorMessageElements |->
          [_errorMessageElements[n] EXCEPT !.visible = FALSE]]
  /\ _errors' = EmptyObject
  /\ _valueFields' = EmptyObject
  /\ disabled' = FALSE
  /\ event' = [type |-> "reset", field |-> "", value |-> ""]
  /\ evals' = <<>>
  /\ submitCalls' = <<>>
  /\ defaultPrevented' = FALSE
  /\ threw' = FALSE
  /\ UNCHANGED <<validators, options, _fields, _mode, form,
                 _onErrorCallback, _onSubmitCallback, observed, registryThrew, parserVars, factoryVars>>

\* resetAllErrors()
resetAllErrors ==
  /\ _errorMessageElements' =
       [n \in DOMAIN _errorMessageElements |->
          IF \E k \in 1..Len(_fields) : _fields[k].name = n
          THEN [_errorMessageElements[n] EXCEPT !.visible = FALSE]
          ELSE _errorMessageElements[n]]
  /\ _errors' = EmptyObject
  /\ disabled' = FALSE
  /\ event' = [type |-> "reset", field |-> "", value |-> ""]
  /\ evals' = <<>>
  /\ submitCalls' = <<>>
  /\ defaultPrevented' = FALSE
  /\ threw' = FALSE
  /\ UNCHANGED <<validators, options, _fields, _mode, form, _valueFields,
                 _onErrorCallback, _onSubmitCallback, observed, registryThrew, parserVars, factoryVars>>

\* onError(callback)
onError(callback) ==
  /\ _onErrorCallback' = callback
  /\ UNCHANGED <<validators, options, _fields, _mode, form, _errors, _valueFields,
                 _errorMessageElements, disabled, _onSubmitCallback, observed,
                 registryThrew, event, evals, submitCalls, defaultPrevented, threw,
                 parserVars, factoryVars>>

\* onSubmit(callback)
onSubmit(callback) ==
  /\ _onSubmitCallback' = callback
  /\ UNCHANGED <<validators, options, _fields, _mode, form, _errors, _valueFields,
                 _errorMessageElements, disabled, _onErrorCallback, observed,
                 registryThrew, event, evals, submitCalls, defaultPrevented, threw,
                 parserVars, factoryVars>>

\* Validator.setMessage(validatorName, message)
setMessage(validatorName, message) ==
  LET hasValidator == validatorName \in DOMAIN validators
  IN /\ validators' = IF hasValidator
                      THEN [validators EXCEPT ![validatorName].message = message]
                      ELSE validators
     /\ registryThrew' = ~hasValidator
     /\ UNCHANGED <<instanceVars, parserVars, factoryVars>>

\* the objects the host holds are not followed
NotHeld == UNCHANGED payloadVars

Next ==
  \/ NotHeld /\ \E name \in options.inputs : \E value \in options.values : Input(name, value)
  \/ NotHeld /\ \E name \in options.inputs : Blur(name)
  \/ NotHeld /\ _handleSubmit
  \/ NotHeld /\ resetAllErrors
  \/ NotHeld /\ \E callback \in Callbacks : onError(callback)
  \/ NotHeld /\ \E callback \in Callbacks : onSubmit(callback)
  \/ NotHeld /\ \E m \in Messages : setMessage(m[1], m[2])

Spec == Init /\ [][Next]_vars

(***************************************************************************)
(* The rule-string parser on its own: a rule string of up to MaxSegments   *)
(* segments is drawn and _validatorsParser is applied to it.               *)
(***************************************************************************)
MaxSegments == 2

\* what a segment starts with, and what is written after it
SegmentNames == {"", "required", "minLen", "range", "unknown"}
SegmentTails == {"", ":", ":4", ":4,5", ":4:5", ":4,5:6", ":4,5,6"}
Segments == {n \o t : n \in SegmentNames, t \in SegmentTails}

RECURSIVE Join(_, _)
Join(segments, i) ==
  IF i > Len(segments) THEN ""
  ELSE IF i = Len(segments) THEN segments[i]
  ELSE segments[i] \o "|" \o Join(segments, i + 1)

RuleStrings ==
  UNION {{Join(q, 1) : q \in [1..n -> Segments]} : n \in 1..MaxSegments}

InitParser ==
  /\ validators = BuiltinValidators
  /\ registryThrew = FALSE
  /\ Created(AgeForm)
  /\ ruleString \in RuleStrings
  /\ parseResult = NotParsed
  /\ FactoryCreated
  /\ NoPayload

\* this._validatorsParser(field.valid)
Parse ==
  /\ parseResult = NotParsed
  /\ parseResult' = _validatorsParser(validators, ruleString)
  /\ UNCHANGED <<validators, registryThrew, instanceVars, ruleString, factoryVars,
                 payloadVars>>

NextParser == Parse

SpecParser == InitParser /\ [][NextParser]_vars

(***************************************************************************)
(* Forms whose fields depend on one another, by syncCall or by a confirm   *)
(* rule, with the objects given to the callbacks followed.                 *)
(***************************************************************************)
\* a syncs b and b syncs c
ChainForm ==
  Form("input",
       <<Field("a", "required", "b"), Field("b", "required", "c"),
         Field("c", "required", "")>>,
       {"", "x"}, FALSE)

\* a field whose syncCall is itself
SelfSyncForm ==
  Form("input", <<Field("s", "required|minLen:2", "s")>>, {"", "x", "xy"}, FALSE)

\* a syncs b and b syncs a
CycleForm ==
  Form("blur",
       <<Field("a", "required", "b"), Field("b", "minLen:2", "a")>>,
       {"", "x"}, FALSE)

\* the field with the confirm rule is declared before the field it names
ConfirmFirstForm ==
  Form("all",
       <<Field("confirm", "required|confirm:password", ""),
         Field("password", "required", "")>>,
       {"abcde", "abcdef"}, FALSE)

DependencyForms == {ChainForm, SelfSyncForm, CycleForm, ConfirmFirstForm}

InitDependencies ==
  /\ validators = BuiltinValidators
  /\ registryThrew = FALSE
  /\ \E o \in DependencyForms : Created(o)
  /\ ruleString = ""
  /\ parseResult = NotParsed
  /\ FactoryCreated
  /\ NoPayload

\* the objects the host holds after an event was handled
Held ==
  /\ errorPayload' = HeldErrors(errorPayload, evals', LastCalled(evals'))
  /\ submitPayload' = HeldValues(submitPayload, submitCalls')

HeldOverReset ==
  /\ errorPayload' = Dropped(errorPayload)
  /\ submitPayload' = submitPayload

NextDependencies ==
  \/ (\E name \in options.inputs : \E value \in options.values : Input(name, value)) /\ Held
  \/ (\E name \in options.inputs : Blur(name)) /\ Held
  \/ _handleSubmit /\ Held
  \/ resetAllErrors /\ HeldOverReset
  \/ NotHeld /\ \E callback \in Callbacks : onError(callback)
  \/ NotHeld /\ \E callback \in Callbacks : onSubmit(callback)

SpecDependencies == InitDependencies /\ [][NextDependencies]_vars

(***************************************************************************)
(* The factory on its own: create and the constructor are called with      *)
(* selectors and options of a page, some of which make the constructor     *)
(* throw.                                                                  *)
(***************************************************************************)
\* the forms of the page: selector -> the names the form answers to
Page == [s \in {".my-form", ".login", ".search"} |-> {"age", "password"}]
Selectors == DOMAIN Page \cup {".missing"}

\* the selectors that find a submit button
Buttons == {"button"}

\* the fields of the options: a good declaration, a field the form does not have, a
\* sync target that is not declared, a rule that is not registered, and a second
\* field whose rule gets no argument
FieldLists ==
  { <<Field("age", "required|number", "")>>,
    <<Field("ghost", "required", "")>>,
    <<Field("age", "required", "ghost")>>,
    <<Field("age", "required|unknown", "")>>,
    <<Field("age", "required", ""), Field("password", "minLen", "")>> }

Options ==
  {[mode |-> m, submitButtonSelector |-> b, fields |-> f] :
     m \in {"input", "submit"}, b \in Buttons \cup {"#none"}, f \in FieldLists}

\* what this._fieldsParser(options.fields) makes the constructor end with
ConstructedWith(parsed) ==
  IF parsed.ok THEN Returned("instance", "") ELSE Returned("throws", parsed.error)

\* new Validator(selector, o) while callConstructorOfFactory is flag
Construct(flag, selector, o) ==
  IF ~flag THEN Returned("throws", "Call only factory")
  ELSE IF selector \notin DOMAIN Page THEN Returned("throws", "Selector not found")
  ELSE IF o.submitButtonSelector \notin Buttons THEN Returned("throws", "Button not found")
  ELSE ConstructedWith(_fieldsParser(validators, Page[selector], o.fields))

\* create past its find, the constructor having ended with r: a throw leaves the
\* function before the push and before the flag is put back
CreateNew(selector, o, r) ==
  /\ returned' = r
  /\ IF r.outcome = "instance"
     THEN /\ instances' = Append(instances, [selector |-> selector, instances |-> o])
          /\ callConstructorOfFactory' = FALSE
     ELSE /\ instances' = instances
          /\ callConstructorOfFactory' = TRUE

\* Validator.create(selector, options)
create(selector, o) ==
  /\ IF \E i \in 1..Len(instances) : instances[i].selector = selector
     THEN /\ returned' = Returned("instance", "")
          /\ UNCHANGED <<instances, callConstructorOfFactory>>
     ELSE CreateNew(selector, o, Construct(TRUE, selector, o))
  /\ UNCHANGED <<validators, registryThrew, instanceVars, parserVars, payloadVars>>

\* new Validator(selector, options), called from outside create
construct(selector, o) ==
  /\ returned' = Construct(callConstructorOfFactory, selector, o)
  /\ UNCHANGED <<instances, callConstructorOfFactory>>
  /\ UNCHANGED <<validators, registryThrew, instanceVars, parserVars, payloadVars>>

\* the instance variables of the model while they are those of no instance
Unbound == Form("input", <<>>, {}, FALSE)

\* the class as it is loaded
InitFactory ==
  /\ validators = BuiltinValidators
  /\ registryThrew = FALSE
  /\ Created(Unbound)
  /\ ruleString = ""
  /\ parseResult = NotParsed
  /\ instances = <<>>
  /\ callConstructorOfFactory = FALSE
  /\ returned = Returned("none", "")
  /\ NoPayload

NextFactory ==
  \/ \E selector \in Selectors : \E o \in Options : create(selector, o)
  \/ \E selector \in Selectors : \E o \in Options : construct(selector, o)

SpecFactory == InitFactory /\ [][NextFactory]_vars

(***************************************************************************)
(* The static registry on its own: rules are added and replaced, messages  *)
(* are set one by one and in bulk.                                         *)
(***************************************************************************)
\* the {name, message, validator} objects the host passes to addValidator; the
\* functions are functions of the built-in rules
NewValidators ==
  {[name |-> n, message |-> "custom", validator |-> v] :
     n \in {"required", "phone"}, v \in {"required", "minLen"}}

\* the (name, message) pairs the host passes to setMessage
RegistryMessages == Messages \cup {<<"phone", "call">>}

\* the objects the host passes to setAllMessages, as their (key, message) pairs in
\* the order of Object.keys: one or two keys
BulkPairs == {<<"required", "bulk">>, <<"email", "bulk">>, <<"unknown", "bulk">>}
MessageLists ==
  {<<a>> : a \in BulkPairs} \cup {q \in BulkPairs \X BulkPairs : q[1] # q[2]}

\* addValidator that installs whether or not replace is set
addValidator_AlwaysReplaces(instance, replace) ==
  /\ validators' = Put(validators, instance.name, instance)
  /\ registryThrew' = FALSE
  /\ UNCHANGED <<instanceVars, parserVars, factoryVars, payloadVars>>

\* Validator.addValidator(instance, replace)
addValidator(instance, replace) ==
  /\ IF instance.name \in DOMAIN validators /\ ~replace
     THEN validators' = validators /\ registryThrew' = TRUE
     ELSE validators' = Put(validators, instance.name, instance) /\ registryThrew' = FALSE
  /\ UNCHANGED <<instanceVars, parserVars, factoryVars, payloadVars>>

\* the forEach of setAllMessages from key i on: the setMessage that throws ends it
RECURSIVE SetEach(_, _, _)
SetEach(reg, messages, i) ==
  IF i > Len(messages) THEN [validators |-> reg, threw |-> FALSE]
  ELSE IF messages[i][1] \notin DOMAIN reg THEN [validators |-> reg, threw |-> TRUE]
  ELSE SetEach([reg EXCEPT ![messages[i][1]].message = messages[i][2]], messages, i + 1)

BulkSet(r) == validators' = r.validators /\ registryThrew' = r.threw

\* Validator.setAllMessages(messages)
setAllMessages(messages) ==
  /\ BulkSet(SetEach(validators, messages, 1))
  /\ UNCHANGED <<instanceVars, parserVars, factoryVars, payloadVars>>

InitRegistry == InitFactory

NextRegistry ==
  \/ \E instance \in NewValidators : \E replace \in BOOLEAN : addValidator(instance, replace)
  \/ NotHeld /\ \E m \in RegistryMessages : setMessage(m[1], m[2])
  \/ \E messages \in MessageLists : setAllMessages(messages)

SpecRegistry == InitRegistry /\ [][NextRegistry]_vars

(***************************************************************************)
(* Properties of the evaluator                                             *)
(***************************************************************************)
FieldNames == {_fields[k].name : k \in 1..Len(_fields)}
RuleNames(field) == {field.validators[i].name : i \in 1..Len(field.validators)}

\* the rule val of field is failing for value against the snapshot this
IsFailing(field, val, value, this) ==
  /\ ~Call(validators[val.name].validator, this, value, val.parameters)
  /\ ~(Len(Trim(value)) = 0 /\ "required" \notin RuleNames(field))

FailingNames(e) ==
  {e.field.validators[i].name :
     i \in {j \in 1..Len(e.field.validators) :
              IsFailing(e.field, e.field.validators[j], e.value, e.this)}}

\* the rule names stored under a field
StoredNames(errors, name) == IF name \in DOMAIN errors THEN DOMAIN errors[name] ELSE {}

\* C1: after every evaluation the evaluated field is a key of the Error Store iff
\* one of its rules is failing, and the rule names stored under it are the names of
\* its failing rules
C1_StoreHoldsFailingRules ==
  \A n \in 1..Len(evals) :
    /\ (evals[n].field.name \in DOMAIN evals[n].errors) <=> (FailingNames(evals[n]) # {})
    /\ StoredNames(evals[n].errors, evals[n].field.name) = FailingNames(evals[n])

\* the place in order of the first rule that has an entry, 0 when none has
FirstEntry(order, entries) ==
  IF \E i \in 1..Len(order) : order[i] \in entries
  THEN CHOOSE i \in 1..Len(order) :
         order[i] \in entries /\ \A j \in 1..(i - 1) : order[j] \notin entries
  ELSE 0

ShowsFirst(element, order, errorsOfField) ==
  /\ element.visible
  /\ FirstEntry(order, DOMAIN errorsOfField) # 0 =>
       element.textContent = errorsOfField[order[FirstEntry(order, DOMAIN errorsOfField)]]

\* C4: after every evaluation a declared field with an entry in the Error Store has
\* its marker set and shows the message of the first rule, in its declared order,
\* that has an entry; a field with no entry has its marker cleared
C4_FirstEntryIsShown ==
  \A n \in 1..Len(evals) : \A k \in 1..Len(_fields) :
    IF _fields[k].name \in DOMAIN evals[n].errors
    THEN ShowsFirst(evals[n].elements[_fields[k].name], OrderOf(_fields[k]),
                    evals[n].errors[_fields[k].name])
    ELSE ~evals[n].elements[_fields[k].name].visible

NoEmptyMapping(errors) == \A f \in DOMAIN errors : DOMAIN errors[f] # {}

\* C6: in every state, and in the store as it is when a callback is called, no
\* field maps to an empty mapping and isError says whether the store has a key
C6_NoEmptyMappingAndIsError ==
  /\ NoEmptyMapping(_errors)
  /\ isError <=> (\E f \in DOMAIN _errors : \E r \in DOMAIN _errors[f] : TRUE)
  /\ \A n \in 1..Len(evals) :
       /\ NoEmptyMapping(evals[n].errors)
       /\ isErrorOf(evals[n].errors) <=> (DOMAIN evals[n].errors # {})
  /\ submitCalls # <<>> => ~isError

\* C6 witness: an error callback was called, and a later evaluation of the same
\* event left its field, whose message is still in its element, without an entry
C6_Witness ==
  \E n \in 1..Len(evals) : \E m \in 1..Len(evals) :
    /\ evals[n].callback # ""
    /\ evals[m].field.name \notin DOMAIN evals[m].errors
    /\ evals[m].elements[evals[m].field.name].textContent # ""
    /\ Len(Trim(evals[m].value)) > 0

\* C7: every entry of the Value Snapshot is the raw value last observed for its
\* field, by a value-change event on it or by a submit pass
C7_SnapshotIsObserved ==
  /\ \A f \in DOMAIN _valueFields : f \in DOMAIN observed /\ _valueFields[f] = observed[f]
  /\ \A f \in DOMAIN observed : f \in DOMAIN _valueFields

\* the confirm rules of a field
ConfirmRules(field) ==
  {i \in 1..Len(field.validators) : field.validators[i].name = "confirm"}

\* C8: no evaluation throws; a confirm rule whose referenced field has no entry in
\* the Value Snapshot is a recorded failure (or exempt, for an empty optional value)
C8_NoEvaluationThrows ==
  /\ ~threw
  /\ \A n \in 1..Len(evals) : \A i \in ConfirmRules(evals[n].field) :
       (/\ Cardinality(ConfirmRules(evals[n].field)) = 1
        /\ evals[n].field.validators[i].parameters[1] \notin DOMAIN evals[n].this)
       => (("confirm" \in StoredNames(evals[n].errors, evals[n].field.name))
             <=> ~(Len(Trim(evals[n].value)) = 0
                   /\ "required" \notin RuleNames(evals[n].field)))
  /\ \A n \in 1..Len(evals) :
       evals[n].callback # "" => evals[n].field.name \in DOMAIN evals[n].errors

\* C8 witness: a confirm rule was evaluated while the field it names had no entry
\* in the Value Snapshot, and the failure was recorded
C8_Witness ==
  /\ ~threw
  /\ \E n \in 1..Len(evals) : \E i \in ConfirmRules(evals[n].field) :
       /\ evals[n].field.validators[i].parameters[1] \notin DOMAIN evals[n].this
       /\ "confirm" \in StoredNames(evals[n].errors, evals[n].field.name)

\* C1 witness: a field with two rules was evaluated and one of them is stored
C1_Witness ==
  \E n \in 1..Len(evals) :
    /\ Len(evals[n].field.validators) >= 2
    /\ StoredNames(evals[n].errors, evals[n].field.name) # {}

\* a field declared once
DeclaredOnce(name) == Cardinality({k \in 1..Len(_fields) : _fields[k].name = name}) = 1

\* P declares syncCall C, and C is required and has the one confirm rule confirm:P
IsSyncPair(p, c) ==
  /\ p # c
  /\ _fields[p].syncCall = _fields[c].name
  /\ DeclaredOnce(_fields[p].name) /\ DeclaredOnce(_fields[c].name)
  /\ "required" \in RuleNames(_fields[c])
  /\ Cardinality(ConfirmRules(_fields[c])) = 1
  /\ \A i \in ConfirmRules(_fields[c]) :
       _fields[c].validators[i].parameters = <<_fields[p].name>>

\* the value a sync call has for a field: its recorded value, or the placeholder
\* that stands for the value of a field that has none
LastKnown(valueFields, name) ==
  IF name \in DOMAIN valueFields THEN valueFields[name] ELSE SyncPlaceholder

\* what holds after a value-change event carrying v on p was handled
DependentReevaluated(p, c, v) ==
  /\ Len(evals') = 2
  /\ evals'[1].field = _fields[p] /\ evals'[1].value = v
  /\ evals'[2].field = _fields[c]
  /\ evals'[2].value = LastKnown(_valueFields, _fields[c].name)
  /\ evals'[2].this[_fields[p].name] = v
  /\ ("confirm" \in StoredNames(_errors', _fields[c].name))
       <=> (LastKnown(_valueFields, _fields[c].name) # v)
  /\ ("confirm" \in StoredNames(_errors', _fields[c].name))
       <=> (_valueFields'[_fields[c].name] # _valueFields'[_fields[p].name])
  /\ form'[_fields[c].name] = form[_fields[c].name]

\* C2: when a value-change event on P has been handled, in a mode that subscribes
\* to it, C has been re-evaluated with its last-known value against P's new value,
\* with no event on C, and C's confirm entry is present exactly when the two differ
C2_DependentIsReevaluated ==
  [][\A p \in 1..Len(_fields) : \A c \in 1..Len(_fields) : \A v \in options.values :
       (/\ IsSyncPair(p, c)
        /\ \/ "input" \in _events(_mode) /\ Input(_fields[p].name, v)
           \/ v = form[_fields[p].name] /\ Blur(_fields[p].name))
       => DependentReevaluated(p, c, v)]_vars

\* C2 witness: password and confirm were both "abcde", then password became
\* "abcdef" and confirm, not touched, has the confirm error
C2_Witness ==
  /\ options = PasswordForm
  /\ event = [type |-> "input", field |-> "password", value |-> "abcdef"]
  /\ Len(evals) = 2
  /\ evals[1].this = [password |-> "abcde", confirm |-> "abcde"]
  /\ form = [password |-> "abcdef", confirm |-> "abcde"]
  /\ StoredNames(_errors, "confirm") = {"confirm"}
  /\ StoredNames(_errors, "password") = {}

\* what holds after a submit event was handled
Submitted ==
  /\ Len(evals') = Len(_fields)
  /\ \A k \in 1..Len(_fields) :
       evals'[k].field = _fields[k] /\ evals'[k].value = form[_fields[k].name]
  /\ IF DOMAIN _errors' # {}
     THEN defaultPrevented' /\ submitCalls' = <<>>
     ELSE /\ ~defaultPrevented'
          /\ _onSubmitCallback = "" => submitCalls' = <<>>
          /\ _onSubmitCallback # "" =>
               /\ Len(submitCalls') = 1
               /\ submitCalls'[1].callback = _onSubmitCallback
               /\ \A k \in 1..Len(_fields) :
                    /\ _fields[k].name \in DOMAIN submitCalls'[1].props
                    /\ submitCalls'[1].props[_fields[k].name] = form[_fields[k].name]

\* C3: a submit event evaluates every declared field, in declaration order, with
\* its live value; then with errors the default action is prevented and no submit
\* callback is called, and without errors the registered submit callback is called
\* once with the live value of every declared field and nothing is prevented
C3_SubmitEvaluatesAllThenDecides == [][_handleSubmit => Submitted]_vars

\* C3 witness: a submit of two fields, one of them never evaluated before, ended
\* with the submit callback called
C3_Witness ==
  /\ event.type = "submit"
  /\ Len(evals) = 2
  /\ evals[1].field.name # evals[2].field.name
  /\ evals[2].field.name \notin DOMAIN evals[1].this
  /\ Len(submitCalls) = 1
  /\ ~defaultPrevented

\* C3 witness of the other outcome: a submit ended with errors and was prevented
C3_WitnessPrevented ==
  /\ event.type = "submit"
  /\ _onSubmitCallback # ""
  /\ defaultPrevented
  /\ submitCalls = <<>>

IsEmpty(value) == Len(Trim(value)) = 0

\* C5 as claimed: an empty value leaves an email-only field with no error and a
\* required|email field with the required error only
C5_RequiredErrorOnly ==
  \A n \in 1..Len(evals) : IsEmpty(evals[n].value) =>
    /\ OrderOf(evals[n].field) = <<"email">> =>
         StoredNames(evals[n].errors, evals[n].field.name) = {}
    /\ OrderOf(evals[n].field) = <<"required", "email">> =>
         StoredNames(evals[n].errors, evals[n].field.name) = {"required"}

\* C5 as amended: an empty value leaves an email-only field with no error, and no
\* error callback is called for it; it leaves a required|email field with the
\* required and the email error, the two a called error callback is given
C5_RequiredAndEmailErrors ==
  \A n \in 1..Len(evals) : IsEmpty(evals[n].value) =>
    /\ OrderOf(evals[n].field) = <<"email">> =>
         /\ StoredNames(evals[n].errors, evals[n].field.name) = {}
         /\ evals[n].callback = ""
    /\ OrderOf(evals[n].field) = <<"required", "email">> =>
         StoredNames(evals[n].errors, evals[n].field.name) = {"required", "email"}

\* C5 witness: one event evaluated an email-only field and a required|email field,
\* each with an empty value, and the error callback was called for the second
C5_Witness ==
  \E n \in 1..Len(evals) : \E m \in 1..Len(evals) :
    /\ IsEmpty(evals[n].value) /\ OrderOf(evals[n].field) = <<"email">>
    /\ IsEmpty(evals[m].value) /\ OrderOf(evals[m].field) = <<"required", "email">>
    /\ evals[m].callback # ""

\* what holds after resetAllErrors
ResetDone ==
  /\ _errors' = EmptyObject
  /\ ~isErrorOf(_errors')
  /\ \A name \in FieldNames : ~_errorMessageElements'[name].visible
  /\ ~disabled'
  /\ UNCHANGED <<_valueFields, _fields, _onErrorCallback, _onSubmitCallback>>

IsPassingRequired(e) ==
  /\ "required" \in RuleNames(e.field)
  /\ ~IsEmpty(e.value)
  /\ \A i \in 1..Len(e.field.validators) :
       Call(validators[e.field.validators[i].name].validator, e.this, e.value,
            e.field.validators[i].parameters)

\* what the evaluation e left: the record a next handler starts with
LeftBy(e) ==
  [errors |-> e.errors, valueFields |-> Put(e.this, e.field.name, e.value),
   elements |-> e.elements, evals |-> <<>>, threw |-> FALSE]

SameStores(r, s) == r.errors = s.errors /\ r.valueFields = s.valueFields /\ ~r.threw

\* the evaluation e repeated once and twice changes neither store
Repeatable(e, s) ==
  /\ SameStores(_eventHandler(s, Str(e.value), e.field), s)
  /\ SameStores(_eventHandler(_eventHandler(s, Str(e.value), e.field),
                              Str(e.value), e.field), s)

\* C14: the evaluation of a field with a required rule, with a value that is not
\* empty and passes every rule of the field, leaves the field without an entry in
\* the Error Store, and the same evaluation made again changes neither the Error
\* Store nor the Value Snapshot
C14_PassingEvaluationIsIdempotent ==
  \A n \in 1..Len(evals) : IsPassingRequired(evals[n]) =>
    /\ evals[n].field.name \notin DOMAIN evals[n].errors
    /\ Repeatable(evals[n], LeftBy(evals[n]))

\* C17: when the error callback is called the Error Store is the one the handling
\* of the event ends with, and so is isError
C17_CallbackSeesSettledStore ==
  \A n \in 1..Len(evals) : evals[n].callback # "" =>
    /\ evals[n].errors = _errors
    /\ isErrorOf(evals[n].errors) = isError

\* field k declares syncCall, a field of another name
SyncsTo(k, j) == _fields[k].syncCall = _fields[j].name /\ _fields[k].name # _fields[j].name

\* C15: when a syncs b and b syncs c, a value-change event on a re-evaluates b and
\* then c, each with its last-known value, before its handling returns
C15_SyncIsRecursive ==
  \A a \in 1..Len(_fields) : \A b \in 1..Len(_fields) : \A c \in 1..Len(_fields) :
    (/\ event.type \in {"input", "blur"} /\ event.field = _fields[a].name
     /\ SyncsTo(a, b) /\ SyncsTo(b, c) /\ _fields[c].name # _fields[a].name
     /\ evals # <<>>)
    => /\ Len(evals) >= 3
       /\ evals[2].field = _fields[b]
       /\ evals[3].field = _fields[c]
       /\ evals[3].value = LastKnown(evals[1].this, _fields[c].name)

\* the number of declarations of the input name
Declarations(name) == Cardinality({k \in 1..Len(_fields) : _fields[k].name = name})

\* C16: the handling of an event ends after finitely many evaluations: a
\* value-change event makes at most two for each declaration of its input, a
\* submit event one for each declared field, whatever the sync declarations
C16_HandlingIsBounded ==
  /\ ~threw
  /\ event.type \in {"input", "blur"} => Len(evals) <= 2 * Declarations(event.field)
  /\ event.type = "submit" => Len(evals) = Len(_fields)

\* C16 witness: in a cycle of two fields an event on one evaluated it and its
\* dependent, whose own dependent it is, and ended
C16_Witness ==
  /\ event.type = "blur"
  /\ Len(evals) = 2
  /\ evals[1].field.syncCall = evals[2].field.name
  /\ evals[2].field.syncCall = evals[1].field.name
  /\ evals[1].field.name # evals[2].field.name

\* C16 witness of a field that syncs itself
C16_WitnessSelf ==
  /\ event.type = "input"
  /\ Len(evals) = 2
  /\ evals[1].field.syncCall = evals[1].field.name
  /\ evals[2].field = evals[1].field

\* C18: the errors mapping given to the error callback and the value mapping given
\* to the submit callback keep the content they had when they were given
C18_PayloadsKeepContent ==
  /\ errorPayload.taken => errorPayload.content = errorPayload.atCall
  /\ submitPayload.taken => _valueFields = submitPayload.atCall

\* an instance of these descriptors that has handled no event
Fresh ==
  [errors |-> EmptyObject, valueFields |-> EmptyObject,
   elements |-> [n \in DOMAIN _errorMessageElements |->
                   [visible |-> FALSE, textContent |-> ""]],
   evals |-> <<>>, threw |-> FALSE]

\* the submit pass ends as the pass that ended with r
SameOutcome(r) ==
  /\ _errors' = r.errors
  /\ defaultPrevented' = isErrorOf(r.errors)
  /\ (submitCalls' # <<>>) <=> (~isErrorOf(r.errors) /\ _onSubmitCallback # "")

\* C19: a submit pass ends with the Error Store and the decision that the pass of
\* an instance with the same descriptors, the same live values and no earlier
\* event ends with
C19_SubmitDependsOnLiveValues ==
  [][(event'.type = "submit" /\ _handleSubmit) => SameOutcome(SubmitPass(Fresh, 1))]_vars

(***************************************************************************)
(* Properties of the rule-string parser                                    *)
(***************************************************************************)
\* what is written in a segment: its rule name, up to the first ":", and its
\* parameters, the comma-separated pieces of what follows the first ":"
WrittenNameAt(elem, colon) == IF colon = 0 THEN elem ELSE SubSeq(elem, 1, colon - 1)
WrittenName(elem) == WrittenNameAt(elem, IndexOf(elem, ":"))

WrittenParametersAt(elem, colon) ==
  IF colon = 0 THEN <<>> ELSE Split(SubSeq(elem, colon + 1, Len(elem)), ",")
WrittenParameters(elem) == WrittenParametersAt(elem, IndexOf(elem, ":"))

ArityDecides(elems, result) ==
  (\A i \in 1..Len(elems) : WrittenName(elems[i]) \in DOMAIN validators) =>
    /\ result.ok <=>
         \A i \in 1..Len(elems) :
           Len(WrittenParameters(elems[i]))
             = getNumberOfValidatorArguments(validators, WrittenName(elems[i]))
    /\ result.ok =>
         \A i \in 1..Len(elems) :
           result.validators[i].parameters = WrittenParameters(elems[i])

\* C10: for segments that name rules of the Registry, parsing succeeds iff each
\* segment has as many parameters written as its rule's arity, and the parsed
\* parameters are the comma-separated pieces of all that follows the first ":"
C10_ArityDecidesParsing ==
  parseResult # NotParsed => ArityDecides(Split(Trim(ruleString), "|"), parseResult)

\* the number of "|" in s
Bars(s) == Cardinality({i \in 1..Len(s) : CharAt(s, i) = "|"})

NamesDecide(elems, result) ==
  /\ (\E i \in 1..Len(elems) : WrittenName(elems[i]) \notin DOMAIN validators)
       => ~result.ok
  /\ result.ok =>
       /\ Len(result.validators) = Len(elems)
       /\ \A i \in 1..Len(elems) : result.validators[i].name = WrittenName(elems[i])

\* C11: parsing fails when the rule name of a segment is not in the Registry, an
\* empty segment being a segment of the empty rule name (there is one segment more
\* than there are "|"); when it succeeds the result has one rule reference per
\* segment, in the order of the string
C11_UnknownNameFails ==
  parseResult # NotParsed =>
    /\ Len(Split(ruleString, "|")) = Bars(ruleString) + 1
    /\ NamesDecide(Split(ruleString, "|"), parseResult)

\* C11 witness: a rule string with a trailing "|" was parsed and failed on the
\* empty rule name
C11_Witness ==
  /\ ruleString = "required|"
  /\ parseResult # NotParsed
  /\ ~parseResult.ok
  /\ parseResult.name = "" /\ parseResult.error = "not found"

\* C11 witness of a success: two segments gave two rule references in order
C11_WitnessParsed ==
  /\ ruleString = "minLen:4|required"
  /\ parseResult.ok
  /\ parseResult.validators = <<[name |-> "minLen", parameters |-> <<"4">>],
                                [name |-> "required", parameters |-> <<>>]>>

(***************************************************************************)
(* Properties of the factory                                               *)
(***************************************************************************)
\* C12: a create that fails adds no instance and leaves the static state of the
\* factory as it was, so that a constructor call from outside create throws
\* "Call only factory"
C12_FailedCreateLeavesNoTrace ==
  [][\A selector \in Selectors : \A o \in Options :
       /\ (create(selector, o) /\ returned'.outcome = "throws") =>
            /\ instances' = instances
            /\ callConstructorOfFactory' = callConstructorOfFactory
       /\ construct(selector, o) => returned' = Returned("throws", "Call only factory")
    ]_vars

(***************************************************************************)
(* Properties of the registry                                              *)
(***************************************************************************)
\* the rules other than name are in the registry as they were
OthersKept(name) ==
  /\ DOMAIN validators' \ {name} = DOMAIN validators \ {name}
  /\ \A n \in DOMAIN validators \ {name} : validators'[n] = validators[n]

Added(instance, replace) ==
  IF instance.name \in DOMAIN validators /\ ~replace
  THEN registryThrew' /\ validators' = validators
  ELSE /\ ~registryThrew'
       /\ instance.name \in DOMAIN validators'
       /\ validators'[instance.name].message = instance.message
       /\ validators'[instance.name].validator = instance.validator
       /\ OthersKept(instance.name)

MessageSet(name, message) ==
  IF name \notin DOMAIN validators
  THEN registryThrew' /\ validators' = validators
  ELSE /\ ~registryThrew'
       /\ name \in DOMAIN validators'
       /\ validators'[name].message = message
       /\ validators'[name].validator = validators[name].validator
       /\ OthersKept(name)

\* C13: addValidator with a registered name and replace unset throws and leaves
\* the Registry unchanged, and otherwise installs the rule under its name and
\* changes no other rule; setMessage on an unregistered name throws and leaves the
\* Registry unchanged, and otherwise changes the message of that rule only
C13_AddAndSetMessage ==
  [][/\ \A instance \in NewValidators : \A replace \in BOOLEAN :
          addValidator(instance, replace) => Added(instance, replace)
     /\ \A m \in RegistryMessages :
          setMessage(m[1], m[2]) => MessageSet(m[1], m[2])]_vars

\* C13 witness: a rule was added under a new name and its message set, a built-in
\* rule was replaced, and the last call threw
C13_Witness ==
  /\ registryThrew
  /\ "phone" \in DOMAIN validators /\ validators["phone"].message = "call"
  /\ validators["required"].message = "custom"
  /\ validators["required"].validator = "minLen"
  /\ validators["email"] = BuiltinValidators["email"]

AllSet(messages) ==
  IF \A i \in 1..Len(messages) : messages[i][1] \in DOMAIN validators
  THEN /\ ~registryThrew'
       /\ \A i \in 1..Len(messages) : validators'[messages[i][1]].message = messages[i][2]
  ELSE /\ registryThrew'
       /\ \A n \in DOMAIN validators : validators'[n].message = validators[n].message

\* C20: setAllMessages sets every listed message when every listed name is in the
\* Registry, and otherwise throws and leaves every message as it was
C20_BulkIsAllOrNothing ==
  [][\A messages \in MessageLists : setAllMessages(messages) => AllSet(messages)]_vars

====
